---- MODULE Spec2Model ----
(***************************************************************************)
(* Model of src/utils.js: the single-signer Schnorr scheme over secp256k1  *)
(* (schnorrSign, schnorrVerify, schnorrHash, the signature codec) and the  *)
(* request pipeline runMuonApp.                                            *)
(*                                                                         *)
(* Scaling.  The curve group is cyclic of order curve_n with generator G,  *)
(* so a point is modelled by its discrete logarithm: the point a*G is the  *)
(* integer a, the point at infinity is 0, and an object that is not on the *)
(* curve is a negative integer.  A 32-byte quantity of the source is one   *)
(* byte here: HexLen hex characters stand for the source's 64, the hash    *)
(* has 16^HexLen values and curve_n lies just below that, as secp256k1's   *)
(* order lies just below 2^256.  Strings are sequences of one-character    *)
(* strings.                                                                *)
(***************************************************************************)
EXTENDS Integers, Sequences, FiniteSets, TLC

VARIABLES call,      \* the last call of a pure function, with its outcome
          req,       \* runMuonApp: one record per request
          env,       \* process.env.PRIVATE_KEY
          bootEnv,   \* what process.env.PRIVATE_KEY held when the process started
          rng        \* number of key pairs curve.genKeyPair() has drawn

vars == <<call, req, env, bootEnv, rng>>

----------------------------------------------------------------------------
(* Sizes *)

\* hex characters of one scalar in a signature string (64 in the source)
HexLen == 2
\* hex characters of an address (40 in the source)
AddrHexLen == 1
\* curve.n, the order of the group
curve_n == 251
\* number of runMuonApp requests of one run
MaxReq == 2

RECURSIVE Pow(_, _)
Pow(b, k) == IF k = 0 THEN 1 ELSE b * Pow(b, k - 1)

\* number of values of keccak256, 2^256 in the source
HashMod == Pow(16, HexLen)
AddrMod == Pow(16, AddrHexLen)

----------------------------------------------------------------------------
(* Outcomes: a call returns a value or throws *)

Ok(v) == [ok |-> TRUE, val |-> v]
Throw(e) == [ok |-> FALSE, err |-> e]

----------------------------------------------------------------------------
(* Hex strings and big numbers *)

HexChars == <<"0", "1", "2", "3", "4", "5", "6", "7",
              "8", "9", "a", "b", "c", "d", "e", "f">>

HexDigit(i) == HexChars[i + 1]

HexValue(c) == CHOOSE i \in 0..15 : HexChars[i + 1] = c

\* BN.toString(16): the shortest hex numeral, "0" for zero
RECURSIVE HexOf(_)
HexOf(num) == IF num < 16 THEN <<HexDigit(num)>>
              ELSE Append(HexOf(num \div 16), HexDigit(num % 16))

RECURSIVE PadLeft(_, _)
PadLeft(str, padding) == IF Len(str) % padding = 0 THEN str
                         ELSE PadLeft(<<"0">> \o str, padding)

\* BN.toString("hex", padding): zeros in front up to a multiple of padding
toStringHex(num, padding) == PadLeft(HexOf(num), padding)

\* toBN("0x" + digits)
RECURSIVE toBN(_)
toBN(digits) == IF digits = <<>> THEN 0
                ELSE 16 * toBN(SubSeq(digits, 1, Len(digits) - 1))
                     + HexValue(digits[Len(digits)])

\* String.prototype.replace("0x", ""): the first occurrence, wherever it is
Replace0x(str) ==
  LET hits == {i \in 1..(Len(str) - 1) : str[i] = "0" /\ str[i + 1] = "x"}
  IN IF hits = {} THEN str
     ELSE LET i == CHOOSE h \in hits : \A g \in hits : h <= g
          IN SubSeq(str, 1, i - 1) \o SubSeq(str, i + 2, Len(str))

\* String.prototype.substr(start, length), start counted from 0
substr(str, start, length) ==
  SubSeq(str, start + 1, IF start + length > Len(str) THEN Len(str) ELSE start + length)

----------------------------------------------------------------------------
(* Hashes *)

\* keccak256 of a byte sequence: a fixed mixing function onto 0..HashMod-1
RECURSIVE keccak256(_)
keccak256(bytes) ==
  IF bytes = <<>> THEN 197
  ELSE (keccak256(SubSeq(bytes, 1, Len(bytes) - 1)) * 33
        + bytes[Len(bytes)] * 7 + Len(bytes)) % HashMod

----------------------------------------------------------------------------
(* The curve *)

\* curve.g
G == 1

\* point.mul(k)
mul(P, k) == (P * k) % curve_n

\* the point at infinity, curve.g.mul(0)
Infinity == mul(G, 0)

\* points on the curve, the point at infinity among them
CurvePoints == 0..(curve_n - 1)

\* curve.curve.validate(point): true of the point at infinity too
validate(P) == P \in CurvePoints

\* point.getX() and point.getY().isEven(): P and -P share x and differ in y
getX(P) == IF 2 * P < curve_n THEN P ELSE curve_n - P
yIsEven(P) == 2 * P < curve_n
getY(P) == IF yIsEven(P) THEN 2 * getX(P) ELSE 2 * getX(P) + 1

\* validatePublicKey: keyFromPublic is defined nowhere, so a string key throws
validatePublicKey(publicKey) ==
  IF publicKey.type = "string" THEN Throw("ReferenceError")
  ELSE Ok(validate(publicKey.pt))

\* pointAdd: the generator when an operand is not on the curve
pointAdd(point1, point2) ==
  IF ~(validate(point1) /\ validate(point2)) THEN G
  ELSE (point1 + point2) % curve_n

\* pub2addr of a finite point: the last AddrHexLen hex characters of the hash
\* of x and y (the checksum casing does not change the bytes)
pub2addr(publicKey) ==
  keccak256(<<getX(publicKey), getY(publicKey) % HashMod>>) % AddrMod

----------------------------------------------------------------------------
(* Schnorr *)

\* schnorrHash: keccak256 of x, the parity byte, the digest and the address
schnorrHash(signingPublicKey, nonceTimesGeneratorAddress, msg) ==
  keccak256(<<getX(signingPublicKey),
              IF yIsEven(signingPublicKey) THEN 0 ELSE 1,
              msg,
              nonceTimesGeneratorAddress>>)

\* schnorrSign with the additive response s = k + d*e
schnorrSign_additive(signingShare, signingPubKey, nonceShare, noncePublicKey, msg) ==
  LET e == schnorrHash(signingPubKey, pub2addr(noncePublicKey), msg)
  IN [s |-> (nonceShare + signingShare * e) % curve_n, e |-> e]

\* schnorrSign with the response left as the difference k - d*e
schnorrSign_noUmod(signingShare, signingPubKey, nonceShare, noncePublicKey, msg) ==
  LET e == schnorrHash(signingPubKey, pub2addr(noncePublicKey), msg)
  IN [s |-> nonceShare - signingShare * e, e |-> e]

\* schnorrSign: e is the hash as it is, s is reduced
schnorrSign(signingShare, signingPubKey, nonceShare, noncePublicKey, msg) ==
  LET nonceTimesGeneratorAddress == pub2addr(noncePublicKey)
      e == schnorrHash(signingPubKey, nonceTimesGeneratorAddress, msg)
      s == (nonceShare - signingShare * e) % curve_n
  IN [s |-> s, e |-> e]

\* stringifySignature with toString("hex") and no width
stringifySignature_noPadding(sign) ==
  <<"0", "x">> \o HexOf(sign.e) \o HexOf(sign.s)

\* stringifySignature
stringifySignature(sign) ==
  <<"0", "x">> \o toStringHex(sign.e, HexLen) \o toStringHex(sign.s, HexLen)

\* splitSignature without the length check of line 91
splitSignature_noLengthCheck(signature) ==
  LET bytes == Replace0x(signature)
  IN Ok([e |-> toBN(substr(bytes, 0, HexLen)),
         s |-> toBN(substr(bytes, HexLen, HexLen))])

\* splitSignature
splitSignature(signature) ==
  LET bytes == Replace0x(signature)
  IN IF Len(bytes) # 2 * HexLen THEN Throw("invalid schnorr signature string")
     ELSE Ok([e |-> toBN(substr(bytes, 0, HexLen)),
              s |-> toBN(substr(bytes, HexLen, HexLen))])

\* schnorrVerify, lines 54-58: the key is a point that passed validation
verifyValidated(P, msg, sig) ==
  LET s == sig.s % curve_n
      r_v == pointAdd(mul(G, s), mul(P, sig.e))
  IN \* getX of the point at infinity reads a null coordinate
     IF P = Infinity \/ r_v = Infinity THEN Throw("TypeError")
     ELSE Ok(schnorrHash(P, pub2addr(r_v), msg) = sig.e)

\* schnorrVerify
schnorrVerify(signingPublicKey, msg, sig) ==
  LET dec == IF sig.type = "string" THEN splitSignature(sig.str) ELSE Ok(sig.val)
  IN IF ~dec.ok THEN dec
     ELSE LET valid == validatePublicKey(signingPublicKey)
          IN IF ~valid.ok THEN valid
             ELSE IF ~valid.val THEN Ok(FALSE)
             ELSE verifyValidated(signingPublicKey.pt, msg, dec.val)

\* the arguments schnorrVerify tells apart with typeof: a key is a point object
\* or the hex encoding of one, a signature is a pair or a string
PointKey(P) == [type |-> "point", pt |-> P]
StringKey(P) == [type |-> "string", pt |-> P]
PairSig(sig) == [type |-> "object", val |-> sig]
StringSig(str) == [type |-> "string", str |-> str]

----------------------------------------------------------------------------
(* Calls of the pure functions *)

\* private scalars and nonce scalars, [1, n)
Scalars == 1..(curve_n - 1)

\* message digests
Digests == {0, HashMod - 2}

\* keys handed to schnorrVerify: off the curve, at infinity, on the curve
VerifyKeys == {PointKey(P) : P \in {-2, -1, 0, 1, 2, 125, curve_n - 1}}
              \cup {StringKey(P) : P \in {-1, 2}}

SampleE == {0, 1, 16, 200, HashMod - 1}
SampleS == {0, 1, 16, 200, curve_n - 1, curve_n}

\* hex bodies of every length up to one more than a signature's
RECURSIVE HexBodies(_)
HexBodies(len) ==
  IF len = 0 THEN {<<>>}
  ELSE LET shorter == HexBodies(len - 1)
       IN shorter \cup {Append(b, c) : b \in {x \in shorter : Len(x) = len - 1},
                                        c \in {"0", "c"}}

SigStrings == HexBodies(2 * HexLen + 1)
              \cup {<<"0", "x">> \o b : b \in HexBodies(2 * HexLen + 1)}

VerifySigs == {PairSig([e |-> e, s |-> s]) : e \in SampleE, s \in SampleS}
              \cup {StringSig(str) : str \in SigStrings}

NoCall == [op |-> "none"]

\* schnorrVerify(P, m, schnorrSign(d, P, k, R, m)) with P = d*G, R = k*G
SignVerify ==
  /\ call = NoCall
  /\ \E d \in Scalars, k \in Scalars, m \in Digests :
    LET P == mul(G, d)
        R == mul(G, k)
        sig == schnorrSign(d, P, k, R, m)
    IN /\ call' = [op |-> "sign", d |-> d, k |-> k, msg |-> m, sig |-> sig,
                   verified |-> schnorrVerify(PointKey(P), m, PairSig(sig))]
       /\ UNCHANGED <<req, env, bootEnv, rng>>

\* schnorrVerify on any key, digest and signature argument
Verify ==
  /\ call = NoCall
  /\ \E key \in VerifyKeys, m \in Digests, sig \in VerifySigs :
    /\ call' = [op |-> "verify", key |-> key, msg |-> m, sig |-> sig,
                res |-> schnorrVerify(key, m, sig)]
    /\ UNCHANGED <<req, env, bootEnv, rng>>

\* splitSignature(stringifySignature({e, s}))
Codec ==
  /\ call = NoCall
  /\ \E e \in 0..(curve_n - 1), s \in 0..(curve_n - 1) :
    LET str == stringifySignature([e |-> e, s |-> s])
    IN /\ call' = [op |-> "codec", e |-> e, s |-> s, str |-> str,
                   dec |-> splitSignature(str)]
       /\ UNCHANGED <<req, env, bootEnv, rng>>

----------------------------------------------------------------------------
(* runMuonApp: the collaborators *)

\* decimal numerals, BigInt(...).toString(10)
DecChars == <<"0", "1", "2", "3", "4", "5", "6", "7", "8", "9">>

RECURSIVE DecOf(_)
DecOf(num) == IF num < 10 THEN <<DecChars[num + 1]>>
              ELSE Append(DecOf(num \div 10), DecChars[(num % 10) + 1])

RECURSIVE DecValue(_)
DecValue(digits) ==
  IF digits = <<>> THEN 0
  ELSE 10 * DecValue(SubSeq(digits, 1, Len(digits) - 1))
       + (CHOOSE i \in 0..9 : DecChars[i + 1] = digits[Len(digits)])

\* the number a uint256 field's value denotes: a "0x" numeral or a decimal one
AbiValue(value) ==
  IF Len(value) >= 2 /\ SubSeq(value, 1, 2) = <<"0", "x">>
  THEN toBN(SubSeq(value, 3, Len(value)))
  ELSE DecValue(value)

\* soliditySha3(...fields): keccak256 of the fields' values packed in order,
\* each in its type's width; a field's name is not hashed
RECURSIVE abiPacked(_)
abiPacked(fields) ==
  IF fields = <<>> THEN <<>>
  ELSE LET last == fields[Len(fields)]
       IN Append(abiPacked(SubSeq(fields, 1, Len(fields) - 1)),
                 IF last.type = "address" THEN AbiValue(last.value) % AddrMod
                 ELSE AbiValue(last.value) % HashMod)

soliditySha3(fields) == keccak256(abiPacked(fields))

\* the applications a request may name, and the bytes of `${app}.js`
Apps == {"price", "slow", "ghost"}
appFileBytes(app) == CASE app = "price" -> <<112, 114>>
                       [] app = "slow" -> <<115, 108>>
                       [] OTHER -> <<103, 104>>

\* `./muon-apps/${app}.js`
appPath(app) == <<"./muon-apps/", app, ".js">>

\* the module files that exist
InstalledPaths == {appPath("price"), appPath("slow")}

\* moduleIsAvailable answering true for every path
moduleIsAvailable_always(path) == TRUE

\* moduleIsAvailable: whether require.resolve(path) succeeds
moduleIsAvailable(path) == path \in InstalledPaths

\* how a module's onRequest may settle; a module with no outcome never does
OnRequestOutcomes(app) == IF app = "price" THEN {"resolve", "reject"} ELSE {}

\* the ordered field lists a module's signParams may return
Field(name, type, value) == [name |-> name, type |-> type, value |-> value]
FieldLists ==
  LET p == Field("price", "uint256", <<"4", "2">>)
      t == Field("token", "address", <<"0", "x", "0", "b">>)
  IN {<<>>, <<p, t>>, <<t, p>>}

\* Date.now() at the time of a request, in milliseconds
Millis == {2999, 3000}

\* process.env.PRIVATE_KEY: a hex numeral, or nothing at all
EnvKeys == {<<>>, <<"0", "7">>, <<"c", "8">>}

\* state of the entropy source when the process starts: the third draw wraps
Seeds == {curve_n - 3}

\* curve.genKeyPair().getPrivate(): a scalar in [1, n) from the entropy source
\* in state st.  The source is a stream without repeats: two draws collide
\* with probability 2^-256 in the source and never here.
genKeyPair(st) == (st % (curve_n - 1)) + 1

\* one key pair drawn and used both for reqId and as the nonce
signingDraws_shared(st) ==
  [reqKey |-> genKeyPair(st), nonce |-> genKeyPair(st), next |-> st + 1]

\* the two key pairs one request draws: line 132 for reqId, line 139 the nonce
signingDraws(st) ==
  [reqKey |-> genKeyPair(st), nonce |-> genKeyPair(st + 1), next |-> st + 2]

\* curve.keyFromPrivate(key).getPrivate(): the numeral reduced mod n
keyFromPrivate(key) == toBN(key) % curve_n

\* bn2hex(num) with no byteLength: the shortest whole number of bytes
bn2hex(num) == <<"0", "x">> \o toStringHex(num, 2)

\* pub2json(pubkey, true)
pub2json(pubkey) ==
  [x |-> <<"0", "x">> \o toStringHex(getX(pubkey), HexLen),
   yParity |-> DecOf(getY(pubkey) % 2)]

\* response.data.signParams, lines 133-137
buildSignParams(appId, reqId, appSignParams) ==
  <<Field("appId", "uint256", appId), Field("reqId", "uint256", reqId)>>
    \o appSignParams

\* the digest of the module's fields alone, line 131's hashSecurityParams
hashToBeSigned_moduleOnly(appSignParams, signParams) == soliditySha3(appSignParams)

\* hashToBeSigned, line 138 (hashSecurityParams of line 131 is never used)
hashToBeSigned(appSignParams, signParams) == soliditySha3(signParams)

----------------------------------------------------------------------------
(* runMuonApp: one request *)

NoSign == [made |-> FALSE]

\* a request not yet made.  reqId, signParams and signatures are empty until
\* the code assigns them; built says the response object exists; called
\* (onRequest was invoked), completed (its promise resolved), moduleFields
\* (what signParams returned), draws and signCall record what the request did.
Idle == [pc |-> "idle", app |-> "", err |-> "", built |-> FALSE,
         appId |-> <<>>, timestamp |-> 0, reqId |-> <<>>,
         signParams |-> <<>>, signatures |-> <<>>,
         called |-> FALSE, completed |-> FALSE, moduleFields |-> <<>>, draws |-> <<>>,
         signCall |-> NoSign]

Requests == 1..MaxReq

\* lines 107-129: up to the await of muonApp.onRequest(response)
Start(r) ==
  /\ req[r].pc = "idle"
  /\ \A q \in Requests : q < r => req[q].pc # "idle"
  /\ \E app \in Apps, now \in Millis :
       req' = [req EXCEPT ![r] =
         IF ~moduleIsAvailable(appPath(app))
         THEN [@ EXCEPT !.pc = "failed", !.app = app,
                        !.err = "App not found on optimistic node"]
         ELSE [@ EXCEPT !.pc = "awaiting", !.app = app, !.built = TRUE,
                        !.appId = DecOf(keccak256(appFileBytes(app))),
                        !.timestamp = now \div 1000,
                        !.called = TRUE]]
  /\ UNCHANGED <<call, env, bootEnv, rng>>

\* the promise onRequest returned settles
Settle(r) ==
  /\ req[r].pc = "awaiting"
  /\ \E outcome \in OnRequestOutcomes(req[r].app) :
       req' = [req EXCEPT ![r] =
         IF outcome = "resolve" THEN [@ EXCEPT !.pc = "resolved", !.completed = TRUE]
         ELSE [@ EXCEPT !.pc = "failed", !.err = "onRequest rejected"]]
  /\ UNCHANGED <<call, env, bootEnv, rng>>

\* lines 130-156: from signParams to the return, in one turn of the event loop
Continue(r) ==
  /\ req[r].pc = "resolved"
  /\ \E appSignParams \in FieldLists :
       LET drawn == signingDraws(rng)
           reqId == <<"0", "x">> \o toStringHex(drawn.reqKey, 2)
           signParams == buildSignParams(req[r].appId, reqId, appSignParams)
           hash == hashToBeSigned(appSignParams, signParams)
           assigned == [req[r] EXCEPT !.moduleFields = appSignParams,
                                      !.reqId = reqId,
                                      !.signParams = signParams,
                                      !.draws = <<drawn.reqKey, drawn.nonce>>]
       IN /\ rng' = drawn.next
          /\ IF env = <<>>
             THEN \* keyFromPrivate(undefined) holds no key: getPublic throws
                  req' = [req EXCEPT ![r] =
                            [assigned EXCEPT !.pc = "failed", !.err = "TypeError"]]
             ELSE LET d == keyFromPrivate(env)
                      verifyingPubKey == mul(G, d)
                      sig == schnorrSign(d, verifyingPubKey, drawn.nonce,
                                         mul(G, drawn.nonce), hash)
                  IN req' = [req EXCEPT ![r] =
                       [assigned EXCEPT
                          !.pc = "done",
                          !.signCall = [made |-> TRUE, d |-> d, P |-> verifyingPubKey,
                                        k |-> drawn.nonce, R |-> mul(G, drawn.nonce),
                                        msg |-> hash, sig |-> sig],
                          !.signatures =
                             <<[owner |-> pub2addr(verifyingPubKey),
                                ownerPubKey |-> pub2json(verifyingPubKey),
                                signature |-> bn2hex(sig.s)]>>]]
  /\ UNCHANGED <<call, env, bootEnv>>

\* something in the process assigns process.env.PRIVATE_KEY
EnvChange ==
  /\ \E key \in EnvKeys \ {env} : env' = key
  /\ UNCHANGED <<call, req, bootEnv, rng>>

Init ==
  /\ call = NoCall
  /\ req = [r \in Requests |-> Idle]
  /\ env \in EnvKeys
  /\ bootEnv = env
  /\ rng \in Seeds

Next == \/ \E r \in Requests : Start(r)
        \/ \E r \in Requests : Settle(r)
        \/ \E r \in Requests : Continue(r)
        \/ EnvChange

Spec == Init /\ [][Next]_vars

----------------------------------------------------------------------------
(* The pure functions on their own *)

\* the call returns to its caller
Return ==
  /\ call # NoCall
  /\ call' = NoCall
  /\ UNCHANGED <<req, env, bootEnv, rng>>

InitSchnorr ==
  /\ call = NoCall
  /\ req = [r \in Requests |-> Idle]
  /\ env = <<>>
  /\ bootEnv = <<>>
  /\ rng = 0

NextSchnorr == SignVerify \/ Verify \/ Codec \/ Return

SpecSchnorr == InitSchnorr /\ [][NextSchnorr]_vars

----------------------------------------------------------------------------
(* Claims about the pure functions, under SpecSchnorr *)

\* C1: for every private scalar d and nonce scalar k in [1, n), with P = d*G
\* and R = k*G, and every digest m, schnorrVerify(P, m, schnorrSign(d, P, k,
\* R, m)) returns true.
C1_SignVerifyRoundTrip ==
  call.op = "sign" => call.verified = Ok(TRUE)

\* a signature whose challenge is at least n and whose d*e exceeds k was
\* made and verified
C1_Witness ==
  /\ call.op = "sign"
  /\ call.sig.e >= curve_n
  /\ call.d * call.sig.e > call.k
  /\ call.verified = Ok(TRUE)

MalformedString(sig) ==
  sig.type = "string" /\ Len(Replace0x(sig.str)) # 2 * HexLen

\* C2 as stated: schnorrVerify given a signature string whose hex body is not
\* 2*HexLen characters long returns false, for every key and digest.
C2_FailsClosedOnMalformedString ==
  (call.op = "verify" /\ MalformedString(call.sig)) => call.res = Ok(FALSE)

\* C2 amended: schnorrVerify given a signature string whose hex body is not
\* 2*HexLen characters long throws splitSignature's error, for every key and
\* digest, and returns nothing.
C2_ThrowsOnMalformedString ==
  (call.op = "verify" /\ MalformedString(call.sig))
    => call.res = Throw("invalid schnorr signature string")

\* a malformed string met a key on the curve, and one met a key off it
C2_Witness ==
  /\ call.op = "verify"
  /\ MalformedString(call.sig)
  /\ Len(call.sig.str) = 2 * HexLen + 1
  /\ call.key = PointKey(2)
  /\ ~call.res.ok

\* C3: whenever the key fails curve validation, schnorrVerify returns false
\* and does not throw, whatever the digest and the signature argument.
C3_InvalidKeyReturnsFalse ==
  (call.op = "verify" /\ ~validate(call.key.pt)) => call.res = Ok(FALSE)

\* C7: for e and s in [0, n), splitSignature(stringifySignature({e, s})) is
\* the pair (e, s), and the string is "0x" and 2*HexLen hex characters.
C7_CodecRoundTrip ==
  call.op = "codec" =>
    /\ call.dec = Ok([e |-> call.e, s |-> call.s])
    /\ Len(call.str) = 2 + 2 * HexLen
    /\ SubSeq(call.str, 1, 2) = <<"0", "x">>

\* a pair whose e needs padding and whose s does not went through the codec
C7_Witness ==
  /\ call.op = "codec"
  /\ call.e < 16 /\ call.e > 0
  /\ call.s >= 16
  /\ call.dec.ok

----------------------------------------------------------------------------
(* Claims about runMuonApp, under Spec and FairSpec *)

Signed(r) == req[r].signCall.made

\* C4: every request that reaches signing draws a nonce key pair of its own:
\* no two schnorrSign calls receive the same nonce scalar, and the nonce is a
\* draw apart from the one behind any reqId.
C4_NonceFreshness ==
  \A r \in Requests : Signed(r) =>
    /\ Len(req[r].draws) = 2
    /\ req[r].signCall.k = req[r].draws[2]
    /\ req[r].signCall.R = mul(G, req[r].signCall.k)
    /\ \A q \in Requests :
         /\ (q # r /\ Signed(q)) => req[q].signCall.k # req[r].signCall.k
         /\ req[q].reqId # <<>> => AbiValue(req[q].reqId) # req[r].signCall.k

\* two requests were in flight together and both signed, the later one first
C4_Witness ==
  /\ Signed(1) /\ Signed(2)
  /\ \E st \in Seeds : req[2].draws = <<genKeyPair(st), genKeyPair(st + 1)>>

\* C5: a successful request's data.signParams is the appId field, the reqId
\* field and then the module's fields in the module's order; the two values
\* are the response's appId and reqId; the digest signed is the hash of that
\* whole list.
C5_SignedFieldOrder ==
  \A r \in Requests : req[r].pc = "done" =>
    /\ req[r].signParams =
         <<Field("appId", "uint256", req[r].appId),
           Field("reqId", "uint256", req[r].reqId)>> \o req[r].moduleFields
    /\ req[r].reqId # <<>>
    /\ Signed(r)
    /\ req[r].signCall.msg = soliditySha3(req[r].signParams)

\* a request succeeded whose module returned two fields, the address first
C5_Witness ==
  \E r \in Requests :
    /\ req[r].pc = "done"
    /\ Len(req[r].moduleFields) = 2
    /\ req[r].moduleFields[1].type = "address"
    /\ Len(req[r].signParams) = 4

\* C6: a request naming a module that cannot be resolved fails with the
\* not-found error, and onRequest and signParams were not called, no key pair
\* was drawn, no response was built and nothing was signed.
C6_ModuleNotFoundTerminal ==
  \A r \in Requests :
    (req[r].pc # "idle" /\ appPath(req[r].app) \notin InstalledPaths) =>
      /\ req[r].pc = "failed"
      /\ req[r].err = "App not found on optimistic node"
      /\ ~req[r].called
      /\ req[r].moduleFields = <<>>
      /\ req[r].draws = <<>>
      /\ ~req[r].built
      /\ req[r].reqId = <<>>
      /\ req[r].signatures = <<>>
      /\ ~Signed(r)

\* a request failed for its missing module after another one had signed
C6_Witness ==
  /\ req[2].pc = "failed"
  /\ req[2].app = "ghost"
  /\ req[1].pc = "done"

\* C8: the key is read once when the process starts, so every request is
\* signed with that key whatever the environment holds later, and a missing
\* key never fails an individual request.
C8_StaticSigningKey ==
  \A r \in Requests :
    /\ Signed(r) => (bootEnv # <<>> /\ req[r].signCall.d = keyFromPrivate(bootEnv))
    /\ req[r].err # "TypeError"

\* a step of one request leaves every other request's record as it was
OwnFieldsOnly ==
  \A r \in Requests : req'[r] # req[r] =>
    \A q \in Requests \ {r} : req'[q] = req[q]

\* C9: a request whose module was found and whose onRequest completed
\* produces its signed response once its continuation has run, whatever the
\* other requests do, hung ones among them; and a step of one request writes
\* no other request's fields.
C9_RequestIndependence ==
  /\ [](\A r \in Requests :
          (req[r].completed /\ req[r].pc # "resolved") =>
             (req[r].pc = "done" /\ req[r].signatures # <<>>))
  /\ [][OwnFieldsOnly]_vars

\* what holds of the code: after its onRequest completed a request signs, or
\* fails on the key the environment does not hold
KeyFaultOnly ==
  \A r \in Requests :
    (req[r].completed /\ req[r].pc \notin {"resolved", "done"}) =>
       (req[r].pc = "failed" /\ req[r].err = "TypeError")

====
